---- MODULE Spec2Model ----
(***************************************************************************)
(* threads-connector: the publish sequencer of internal/threads/client.go  *)
(* (Client.CreatePost, waitForContainerReady, createMediaContainer,        *)
(* publishMediaContainer, splitText) driven against a nondeterministic     *)
(* remote Threads Graph API.                                               *)
(*                                                                         *)
(* A Go string is a finite sequence of symbols; "" is <<>>.  An id issued  *)
(* by the remote API is the one-symbol string <<n>>, or "" when a 200      *)
(* answer carries no "id" member (result["id"] of a map[string]string).    *)
(***************************************************************************)
EXTENDS Naturals, Sequences, FiniteSets

\* ---- bounds ----------------------------------------------------------
\* longest request text that is enumerated
MaxTextLen == 4
\* the platform character limit, scaled down from 500 so that texts of at
\* most MaxTextLen symbols span several chunks
maxCharLimit == 2
\* longest extra delay (seconds) a status request plus sleep may take over
\* the check interval
MaxJitter == 1
\* longest text and largest limit given to splitText directly
MaxSplitLen == 8
MaxSplitLimit == 3

\* ---- program constants (seconds) ---------------------------------------
containerReadyTimeout == 30
containerCheckInterval == 2

\* ---- strings ------------------------------------------------------------
EMPTY == <<>>
Chars == {"a", " "}
IsSpace(c) == c = " "

RECURSIVE SeqsUpTo(_)
SeqsUpTo(n) ==
  IF n = 0 THEN {EMPTY}
  ELSE LET S == SeqsUpTo(n - 1)
       IN  S \cup {Append(s, c) : s \in {t \in S : Len(t) = n - 1}, c \in Chars}

Texts == SeqsUpTo(MaxTextLen)
ImageURLs == {EMPTY, <<"i">>}
ExternalURLs == {EMPTY, <<"u">>}
AccessToken == <<"k">>
TEXT == <<"TEXT">>
IMAGE == <<"IMAGE">>

\* strings.Fields: the maximal runs of non-space symbols, in order
RECURSIVE FieldsFrom(_, _, _, _)
FieldsFrom(s, k, cur, acc) ==
  IF k > Len(s) THEN (IF cur = EMPTY THEN acc ELSE Append(acc, cur))
  ELSE IF IsSpace(s[k])
       THEN FieldsFrom(s, k + 1, EMPTY, IF cur = EMPTY THEN acc ELSE Append(acc, cur))
       ELSE FieldsFrom(s, k + 1, Append(cur, s[k]), acc)

Fields(s) == FieldsFrom(s, 1, EMPTY, <<>>)

\* splitLoop whose length test forgets the separating space
RECURSIVE splitLoopSpaceNotCounted(_, _, _, _, _)
splitLoopSpaceNotCounted(words, k, limit, chunks_, currentChunk) ==
  IF k > Len(words)
  THEN IF currentChunk # EMPTY THEN Append(chunks_, currentChunk) ELSE chunks_
  ELSE LET word == words[k]
       IN  IF Len(currentChunk) + Len(word) > limit
           THEN splitLoopSpaceNotCounted(words, k + 1, limit,
                                         Append(chunks_, currentChunk), word)
           ELSE splitLoopSpaceNotCounted(words, k + 1, limit, chunks_,
                          (IF currentChunk # EMPTY THEN Append(currentChunk, " ")
                                                   ELSE currentChunk) \o word)

\* the body of splitText's loop over words, from word k on
RECURSIVE splitLoop(_, _, _, _, _)
splitLoop(words, k, limit, chunks_, currentChunk) ==
  IF k > Len(words)
  THEN IF currentChunk # EMPTY THEN Append(chunks_, currentChunk) ELSE chunks_
  ELSE LET word == words[k]
       IN  IF Len(currentChunk) + Len(word) + 1 > limit
           THEN splitLoop(words, k + 1, limit, Append(chunks_, currentChunk), word)
           ELSE splitLoop(words, k + 1, limit, chunks_,
                          (IF currentChunk # EMPTY THEN Append(currentChunk, " ")
                                                   ELSE currentChunk) \o word)

\* splitText without the return of a text that fits the limit as it is
splitTextAlwaysByWords(t, limit) ==
  IF t = EMPTY THEN <<>>
  ELSE splitLoop(Fields(t), 1, limit, <<>>, EMPTY)

splitText(t, limit) ==
  IF t = EMPTY THEN <<>>
  ELSE IF Len(t) <= limit THEN <<t>>
  ELSE splitLoop(Fields(t), 1, limit, <<>>, EMPTY)


\* ---- state --------------------------------------------------------------
VARIABLES
  pc,             \* position of the CreatePost invocation
  text, imageURL, externalURL,   \* arguments of CreatePost
  chunks,         \* splitText(text, maxCharLimit)
  i,              \* index of the chunk being posted (0-based, as in the code)
  unit,           \* which part of CreatePost runs: chunk loop, image, URL
  rootPostID, previousPostID,
  creationID,     \* container of the unit in progress
  now, deadline,  \* clock of the latest waitForContainerReady, 0 at its start
  polls,          \* status requests issued by the latest wait
  lastStatus,     \* status decoded from its latest status request
  nextID,         \* next id the remote API hands out
  calls,          \* remote operations issued so far, oldest first
  published,      \* remote side: containers published so far
  ret,            \* (string, error) returned by CreatePost
  onlyInProgress, \* every status request of the latest wait said IN_PROGRESS
  other,          \* the locals of a second, concurrent CreatePost invocation
  limit,          \* second argument of a direct splitText call
  config,         \* Server.Config
  req,            \* the HTTP request handled by the server
  resp            \* the HTTP response written for it

vars == <<pc, text, imageURL, externalURL, chunks, i, unit, rootPostID,
          previousPostID, creationID, now, deadline, polls, lastStatus,
          nextID, calls, published, ret, onlyInProgress, other, limit,
          config, req, resp>>

Statuses == {"FINISHED", "PUBLISHED", "ERROR", "EXPIRED", "IN_PROGRESS",
             "UNKNOWN", ""}

NoParams == [k \in {} |-> EMPTY]
NoReturn == [id |-> EMPTY, err |-> "pending"]
NoInvocation == [pc |-> "none"]
NoRequest == [stage |-> "none"]
APIKEY == <<"key">>
NoResponse == [status |-> 0, postID |-> EMPTY]

\* ids the remote API may put in a 200 answer to a publish: none, or a fresh
\* one.  Container ids are always fresh: CreatePost only hands them on.
RemoteIDs == {EMPTY, <<nextID>>}
ContainerIDs == {<<nextID>>}

\* ---- createMediaContainer: the form it posts ----------------------------
mediaTypeOf(img) == IF img # EMPTY THEN IMAGE ELSE TEXT

\* createParams that sets link_attachment whatever the media type
createParamsLinkOnImage(t, img, replyToID, linkAttachment) ==
  LET mediaType == mediaTypeOf(img)
      keys == {"access_token", "media_type"}
              \cup (IF img # EMPTY THEN {"image_url"} ELSE {})
              \cup (IF t # EMPTY THEN {"text"} ELSE {})
              \cup (IF replyToID # EMPTY THEN {"reply_to_id"} ELSE {})
              \cup (IF linkAttachment # EMPTY THEN {"link_attachment"} ELSE {})
  IN  [k \in keys |->
         CASE k = "access_token" -> AccessToken
           [] k = "media_type" -> mediaType
           [] k = "image_url" -> img
           [] k = "text" -> t
           [] k = "reply_to_id" -> replyToID
           [] k = "link_attachment" -> linkAttachment]

createParams(t, img, replyToID, linkAttachment) ==
  LET mediaType == mediaTypeOf(img)
      keys == {"access_token", "media_type"}
              \cup (IF img # EMPTY THEN {"image_url"} ELSE {})
              \cup (IF t # EMPTY THEN {"text"} ELSE {})
              \cup (IF replyToID # EMPTY THEN {"reply_to_id"} ELSE {})
              \cup (IF linkAttachment # EMPTY /\ mediaType = TEXT
                    THEN {"link_attachment"} ELSE {})
  IN  [k \in keys |->
         CASE k = "access_token" -> AccessToken
           [] k = "media_type" -> mediaType
           [] k = "image_url" -> img
           [] k = "text" -> t
           [] k = "reply_to_id" -> replyToID
           [] k = "link_attachment" -> linkAttachment]

\* createArgs with the image attached to every chunk
createArgsImageOnEveryChunk(u, idx, chs, img, url, prev) ==
  CASE u = "chunk" ->
         [text |-> chs[idx + 1], imageURL |-> img,
          replyToID |-> prev, linkAttachment |-> EMPTY]
    [] u = "image" ->
         [text |-> EMPTY, imageURL |-> img,
          replyToID |-> EMPTY, linkAttachment |-> EMPTY]
    [] u = "urlreply" ->
         [text |-> url, imageURL |-> EMPTY,
          replyToID |-> prev, linkAttachment |-> EMPTY]
    [] u = "urlroot" ->
         [text |-> url, imageURL |-> EMPTY,
          replyToID |-> EMPTY, linkAttachment |-> EMPTY]

\* createArgs with the URL of the trailing reply sent as a link attachment
createArgsLinkAttachment(u, idx, chs, img, url, prev) ==
  CASE u = "chunk" ->
         [text |-> chs[idx + 1],
          imageURL |-> IF idx = 0 THEN img ELSE EMPTY,
          replyToID |-> prev, linkAttachment |-> EMPTY]
    [] u = "image" ->
         [text |-> EMPTY, imageURL |-> img,
          replyToID |-> EMPTY, linkAttachment |-> EMPTY]
    [] u = "urlreply" ->
         [text |-> url, imageURL |-> EMPTY,
          replyToID |-> prev, linkAttachment |-> url]
    [] u = "urlroot" ->
         [text |-> url, imageURL |-> EMPTY,
          replyToID |-> EMPTY, linkAttachment |-> EMPTY]

\* ---- CreatePost: arguments of the createMediaContainer call of a unit ----
createArgs(u, idx, chs, img, url, prev) ==
  CASE u = "chunk" ->
         [text |-> chs[idx + 1],
          imageURL |-> IF idx = 0 THEN img ELSE EMPTY,
          replyToID |-> prev, linkAttachment |-> EMPTY]
    [] u = "image" ->
         [text |-> EMPTY, imageURL |-> img,
          replyToID |-> EMPTY, linkAttachment |-> EMPTY]
    [] u = "urlreply" ->
         [text |-> url, imageURL |-> EMPTY,
          replyToID |-> prev, linkAttachment |-> EMPTY]
    [] u = "urlroot" ->
         [text |-> url, imageURL |-> EMPTY,
          replyToID |-> EMPTY, linkAttachment |-> EMPTY]

\* ---- CreatePost: control flow between units -----------------------------
\* noContent without the test of the external URL turned the right way
noContentURLInverted(chs, img, url) == Len(chs) = 0 /\ img = EMPTY /\ url # EMPTY

\* the empty-content test
noContent(chs, img, url) == Len(chs) = 0 /\ img = EMPTY /\ url = EMPTY

\* the if / else-if that posts the external URL
urlBranch(url, prev) ==
  IF url # EMPTY /\ prev # EMPTY THEN "urlreply"
  ELSE IF url # EMPTY THEN "urlroot"
  ELSE "return"

\* what follows the chunk loop
afterChunks(chs, img, url, prev) ==
  IF Len(chs) = 0 /\ img # EMPTY THEN "image" ELSE urlBranch(url, prev)

\* what follows the publish of unit u (chunk idx)
afterPublish(u, idx, chs, img, url, prev) ==
  CASE u = "chunk" ->
         IF idx + 1 < Len(chs) THEN "chunk" ELSE afterChunks(chs, img, url, prev)
    [] u = "image" -> urlBranch(url, prev)
    [] u = "urlreply" -> "return"
    [] u = "urlroot" -> "return"

\* rootAfter with the image-only branch not recording its id
rootAfterImageNotRecorded(u, idx, root, id) ==
  CASE u = "chunk" -> IF idx = 0 THEN id ELSE root
    [] u = "image" -> root
    [] u = "urlreply" -> root
    [] u = "urlroot" -> id

\* rootPostID after unit u (chunk idx) was published as id
rootAfter(u, idx, root, id) ==
  CASE u = "chunk" -> IF idx = 0 THEN id ELSE root
    [] u = "image" -> id
    [] u = "urlreply" -> root
    [] u = "urlroot" -> id

\* previousPostID after unit u was published as id
previousAfter(u, prev, id) ==
  IF u \in {"chunk", "image"} THEN id ELSE prev

\* errorReturn handing out the root id recorded so far
errorReturnPartial(root) == root

\* the value CreatePost returns next to a non-nil error
errorReturn(root) == EMPTY

\* statusAction without the PUBLISHED case
statusActionNoPublished(status) ==
  CASE status = "FINISHED" -> "ready"
    [] status = "ERROR" -> "failed"
    [] status = "EXPIRED" -> "failed"
    [] OTHER -> "sleep"

\* statusAction with an unknown status handled as a failure
statusActionUnknownFails(status) ==
  CASE status = "FINISHED" -> "ready"
    [] status = "PUBLISHED" -> "ready"
    [] status = "IN_PROGRESS" -> "sleep"
    [] OTHER -> "failed"

\* ---- waitForContainerReady: the switch on the decoded status ------------
statusAction(status) ==
  CASE status = "FINISHED" -> "ready"
    [] status = "PUBLISHED" -> "ready"
    [] status = "ERROR" -> "failed"
    [] status = "EXPIRED" -> "failed"
    [] status = "IN_PROGRESS" -> "sleep"
    [] OTHER -> "sleep"

\* beforeDeadline that still polls at the deadline itself
beforeDeadlineInclusive(t, d) == t <= d

\* the loop condition time.Now().Before(deadline)
beforeDeadline(t, d) == t < d

\* ---- log entries ---------------------------------------------------------
CreateCall(a, ok, id) ==
  [op |-> "create", unit |-> unit, i |-> i, args |-> a,
   params |-> createParams(a.text, a.imageURL, a.replyToID, a.linkAttachment),
   creationID |-> EMPTY, ok |-> ok, id |-> id, why |-> ""]
WaitCall(ok, why) ==
  [op |-> "wait", unit |-> unit, i |-> i, args |-> NoParams, params |-> NoParams,
   creationID |-> creationID, ok |-> ok, id |-> EMPTY, why |-> why]
PublishCall(ok, id) ==
  [op |-> "publish", unit |-> unit, i |-> i, args |-> NoParams, params |-> NoParams,
   creationID |-> creationID, ok |-> ok, id |-> id, why |-> ""]

\* ---- initial state ---------------------------------------------------------
Init ==
  /\ pc = "idle"
  /\ text = EMPTY /\ imageURL = EMPTY /\ externalURL = EMPTY
  /\ chunks = <<>>
  /\ i = 0
  /\ unit = "none"
  /\ rootPostID = EMPTY /\ previousPostID = EMPTY
  /\ creationID = EMPTY
  /\ now = 0 /\ deadline = 0
  /\ polls = 0
  /\ lastStatus = "none"
  /\ nextID = 1
  /\ calls = <<>>
  /\ published = <<>>
  /\ ret = NoReturn
  /\ onlyInProgress = TRUE
  /\ other = NoInvocation
  /\ limit = maxCharLimit
  /\ config = [APIKey |-> APIKEY]
  /\ req = NoRequest
  /\ resp = NoResponse

waitVars == <<now, deadline, polls, lastStatus, onlyInProgress>>
\* what lies outside one CreatePost invocation
hostVars == <<other, limit, config, req, resp>>
argVars == <<text, imageURL, externalURL, chunks>>

\* leave CreatePost with an error
Fail(why) ==
  /\ pc' = "done"
  /\ ret' = [id |-> errorReturn(rootPostID), err |-> why]

\* move on to position p ("chunk", "image", "urlreply", "urlroot", "return")
Goto(p, idx, root) ==
  IF p = "return"
  THEN /\ pc' = "done"
       /\ ret' = [id |-> root, err |-> "nil"]
       /\ UNCHANGED <<unit, i>>
  ELSE /\ pc' = "create"
       /\ unit' = p
       /\ i' = idx
       /\ ret' = ret

\* ---- CreatePost, up to its first remote call ----------------------------
CreatePost(t, img, url) ==
  /\ pc = "idle"
  /\ text' = t /\ imageURL' = img /\ externalURL' = url
  /\ LET chs == splitText(t, maxCharLimit)
     IN  /\ chunks' = chs
         /\ IF noContent(chs, img, url)
            THEN /\ pc' = "done"
                 /\ ret' = [id |-> EMPTY, err |-> "no content to post"]
                 /\ UNCHANGED <<unit, i>>
            ELSE IF Len(chs) > 0
                 THEN Goto("chunk", 0, EMPTY)
                 ELSE Goto(afterChunks(chs, img, url, EMPTY), 0, EMPTY)
  /\ UNCHANGED <<hostVars, rootPostID, previousPostID, creationID, waitVars, nextID,
                 calls, published>>

\* ---- createMediaContainer answers 200 with id; the wait starts -----------
CreateOK(id) ==
  /\ pc = "create"
  /\ id \in ContainerIDs
  /\ calls' = Append(calls,
        CreateCall(createArgs(unit, i, chunks, imageURL, externalURL,
                              previousPostID), TRUE, id))
  /\ nextID' = IF id = EMPTY THEN nextID ELSE nextID + 1
  /\ creationID' = id
  /\ now' = 0
  /\ deadline' = containerReadyTimeout
  /\ polls' = 0
  /\ lastStatus' = "none"
  /\ onlyInProgress' = TRUE
  /\ pc' = "wait"
  /\ UNCHANGED <<hostVars, argVars, i, unit, rootPostID, previousPostID, published, ret>>

\* ---- createMediaContainer fails (transport, non-200, undecodable) -------
CreateFail ==
  /\ pc = "create"
  /\ calls' = Append(calls,
        CreateCall(createArgs(unit, i, chunks, imageURL, externalURL,
                              previousPostID), FALSE, EMPTY))
  /\ Fail("create")
  /\ UNCHANGED <<hostVars, argVars, i, unit, rootPostID, previousPostID, creationID,
                 waitVars, nextID, published>>

\* PollReady in a loop that tests the deadline after the poll, not before
PollReadyFinalPoll(status) ==
  /\ pc = "wait"
  /\ statusAction(status) = "ready"
  /\ polls' = polls + 1
  /\ lastStatus' = status
  /\ onlyInProgress' = (onlyInProgress /\ status = "IN_PROGRESS")
  /\ calls' = Append(calls, WaitCall(TRUE, "ready"))
  /\ pc' = "publish"
  /\ UNCHANGED <<hostVars, argVars, i, unit, rootPostID, previousPostID, creationID,
                 now, deadline, nextID, published, ret>>

\* PollReady that starts the next create and leaves the publish for later
PollReadyDefersPublish(status) ==
  /\ pc = "wait"
  /\ beforeDeadline(now, deadline)
  /\ statusAction(status) = "ready"
  /\ polls' = polls + 1
  /\ lastStatus' = status
  /\ onlyInProgress' = (onlyInProgress /\ status = "IN_PROGRESS")
  /\ calls' = Append(calls, WaitCall(TRUE, "ready"))
  /\ pc' = "create"
  /\ UNCHANGED <<hostVars, argVars, i, unit, rootPostID, previousPostID, creationID,
                 now, deadline, nextID, published, ret>>

\* ---- waitForContainerReady: one status request ---------------------------
\* terminal success status: return nil
PollReady(status) ==
  /\ pc = "wait"
  /\ beforeDeadline(now, deadline)
  /\ statusAction(status) = "ready"
  /\ polls' = polls + 1
  /\ lastStatus' = status
  /\ onlyInProgress' = (onlyInProgress /\ status = "IN_PROGRESS")
  /\ calls' = Append(calls, WaitCall(TRUE, "ready"))
  /\ pc' = "publish"
  /\ UNCHANGED <<hostVars, argVars, i, unit, rootPostID, previousPostID, creationID,
                 now, deadline, nextID, published, ret>>

\* terminal failure status: return an error
PollFailed(status) ==
  /\ pc = "wait"
  /\ beforeDeadline(now, deadline)
  /\ statusAction(status) = "failed"
  /\ polls' = polls + 1
  /\ lastStatus' = status
  /\ onlyInProgress' = (onlyInProgress /\ status = "IN_PROGRESS")
  /\ calls' = Append(calls, WaitCall(FALSE, "failed"))
  /\ Fail("not ready")
  /\ UNCHANGED <<hostVars, argVars, i, unit, rootPostID, previousPostID, creationID,
                 now, deadline, nextID, published>>

\* any other status: sleep one interval and loop
PollSleep(status, extra) ==
  /\ pc = "wait"
  /\ beforeDeadline(now, deadline)
  /\ statusAction(status) = "sleep"
  /\ polls' = polls + 1
  /\ lastStatus' = status
  /\ onlyInProgress' = (onlyInProgress /\ status = "IN_PROGRESS")
  /\ now' = now + containerCheckInterval + extra
  /\ UNCHANGED <<hostVars, pc, argVars, i, unit, rootPostID, previousPostID, creationID,
                 deadline, nextID, calls, published, ret>>

\* the request, the body read or the JSON decoding fails
PollError ==
  /\ pc = "wait"
  /\ beforeDeadline(now, deadline)
  /\ polls' = polls + 1
  /\ lastStatus' = "none"
  /\ onlyInProgress' = FALSE
  /\ calls' = Append(calls, WaitCall(FALSE, "status request"))
  /\ Fail("not ready")
  /\ UNCHANGED <<hostVars, argVars, i, unit, rootPostID, previousPostID, creationID,
                 now, deadline, nextID, published>>

\* WaitTimeout that returns nil
WaitTimeoutReturnsNil ==
  /\ pc = "wait"
  /\ ~beforeDeadline(now, deadline)
  /\ calls' = Append(calls, WaitCall(TRUE, "timeout"))
  /\ pc' = "publish"
  /\ UNCHANGED <<hostVars, argVars, i, unit, rootPostID, previousPostID, creationID,
                 waitVars, nextID, published, ret>>

\* WaitTimeout that goes on to publish the container
WaitTimeoutPublishes ==
  /\ pc = "wait"
  /\ ~beforeDeadline(now, deadline)
  /\ calls' = Append(calls, WaitCall(FALSE, "timeout"))
  /\ pc' = "publish"
  /\ UNCHANGED <<hostVars, argVars, i, unit, rootPostID, previousPostID, creationID,
                 waitVars, nextID, published, ret>>

\* the loop condition fails
WaitTimeout ==
  /\ pc = "wait"
  /\ ~beforeDeadline(now, deadline)
  /\ calls' = Append(calls, WaitCall(FALSE, "timeout"))
  /\ Fail("not ready")
  /\ UNCHANGED <<hostVars, argVars, i, unit, rootPostID, previousPostID, creationID,
                 waitVars, nextID, published>>

\* ---- publishMediaContainer answers 200 with id; on to the next unit ------
PublishOK(id) ==
  /\ pc = "publish"
  /\ id \in RemoteIDs
  /\ calls' = Append(calls, PublishCall(TRUE, id))
  /\ published' = Append(published, [creationID |-> creationID, id |-> id])
  /\ nextID' = IF id = EMPTY THEN nextID ELSE nextID + 1
  /\ rootPostID' = rootAfter(unit, i, rootPostID, id)
  /\ previousPostID' = previousAfter(unit, previousPostID, id)
  /\ Goto(afterPublish(unit, i, chunks, imageURL, externalURL, previousPostID'),
          IF unit = "chunk" THEN i + 1 ELSE i, rootPostID')
  /\ now' = 0 /\ deadline' = 0 /\ polls' = 0 /\ lastStatus' = "none"
  /\ onlyInProgress' = TRUE
  /\ UNCHANGED <<hostVars, argVars, creationID>>

\* PublishFail that tries the publish again
PublishFailRetries ==
  /\ pc = "publish"
  /\ calls' = Append(calls, PublishCall(FALSE, EMPTY))
  /\ UNCHANGED <<hostVars, pc, argVars, i, unit, rootPostID, previousPostID, creationID,
                 waitVars, nextID, published, ret>>

\* ---- publishMediaContainer fails ------------------------------------------
PublishFail ==
  /\ pc = "publish"
  /\ calls' = Append(calls, PublishCall(FALSE, EMPTY))
  /\ Fail("publish")
  /\ UNCHANGED <<hostVars, argVars, i, unit, rootPostID, previousPostID, creationID,
                 waitVars, nextID, published>>

Next ==
  \/ \E t \in Texts, img \in ImageURLs, url \in ExternalURLs : CreatePost(t, img, url)
  \/ \E id \in ContainerIDs : CreateOK(id)
  \/ CreateFail
  \/ \E s \in Statuses : PollReady(s)
  \/ \E s \in Statuses : PollFailed(s)
  \/ \E s \in Statuses, extra \in 0..MaxJitter : PollSleep(s, extra)
  \/ PollError
  \/ WaitTimeout
  \/ \E id \in RemoteIDs : PublishOK(id)
  \/ PublishFail

Spec == Init /\ [][Next]_vars


\* ---- the readiness wait of the first unit alone ----------------------------
\* CreatePost is followed up to the return of its first waitForContainerReady
WaitTexts == {EMPTY, <<"a">>}

NextWait ==
  \/ \E t \in WaitTexts, img \in ImageURLs, url \in ExternalURLs : CreatePost(t, img, url)
  \/ \E id \in ContainerIDs : CreateOK(id)
  \/ \E s \in Statuses : PollReady(s)
  \/ \E s \in Statuses : PollFailed(s)
  \/ \E s \in Statuses, extra \in 0..MaxJitter : PollSleep(s, extra)
  \/ PollError
  \/ WaitTimeout

\* the goroutine that runs the wait is always scheduled again, and every
\* status request returns (the HTTP client has a timeout)
SpecWait == Init /\ [][NextWait]_vars /\ WF_vars(NextWait)


\* ---- two concurrent CreatePost invocations on one Client -------------------
\* Everything CreatePost and its callees keep is in local variables; the
\* Client fields are only read.  The invocation that is not running has its
\* locals parked in other; the remote side (nextID, published) is common.
locals ==
  [pc |-> pc, text |-> text, imageURL |-> imageURL, externalURL |-> externalURL,
   chunks |-> chunks, i |-> i, unit |-> unit, rootPostID |-> rootPostID,
   previousPostID |-> previousPostID, creationID |-> creationID, now |-> now,
   deadline |-> deadline, polls |-> polls, lastStatus |-> lastStatus,
   onlyInProgress |-> onlyInProgress, calls |-> calls, ret |-> ret]

\* the scheduler runs the other goroutine
Switch ==
  /\ other.pc # "none"
  /\ other' = locals
  /\ pc' = other.pc
  /\ text' = other.text /\ imageURL' = other.imageURL
  /\ externalURL' = other.externalURL
  /\ chunks' = other.chunks
  /\ i' = other.i
  /\ unit' = other.unit
  /\ rootPostID' = other.rootPostID
  /\ previousPostID' = other.previousPostID
  /\ creationID' = other.creationID
  /\ now' = other.now /\ deadline' = other.deadline
  /\ polls' = other.polls
  /\ lastStatus' = other.lastStatus
  /\ onlyInProgress' = other.onlyInProgress
  /\ calls' = other.calls
  /\ ret' = other.ret
  /\ UNCHANGED <<nextID, published, limit, config, req, resp>>

\* inputs and remote answers of the concurrent runs
ConcTexts == {<<"a">>, <<"a", " ", "a">>}
ConcImageURLs == {EMPTY}
ConcStatuses == {"FINISHED", "ERROR", "IN_PROGRESS"}
\* a status request that takes as long as the whole deadline
ConcDelays == {containerReadyTimeout}

InitConc ==
  /\ pc = "idle"
  /\ text = EMPTY /\ imageURL = EMPTY /\ externalURL = EMPTY
  /\ chunks = <<>>
  /\ i = 0
  /\ unit = "none"
  /\ rootPostID = EMPTY /\ previousPostID = EMPTY
  /\ creationID = EMPTY
  /\ now = 0 /\ deadline = 0
  /\ polls = 0
  /\ lastStatus = "none"
  /\ nextID = 1
  /\ calls = <<>>
  /\ published = <<>>
  /\ ret = NoReturn
  /\ onlyInProgress = TRUE
  /\ other = locals
  /\ limit = maxCharLimit
  /\ config = [APIKey |-> APIKEY]
  /\ req = NoRequest
  /\ resp = NoResponse

NextConc ==
  \/ \E t \in ConcTexts, img \in ConcImageURLs, url \in ExternalURLs : CreatePost(t, img, url)
  \/ \E id \in ContainerIDs : CreateOK(id)
  \/ CreateFail
  \/ \E s \in ConcStatuses : PollReady(s)
  \/ \E s \in ConcStatuses : PollFailed(s)
  \/ \E s \in ConcStatuses, extra \in ConcDelays : PollSleep(s, extra)
  \/ PollError
  \/ WaitTimeout
  \/ \E id \in RemoteIDs : PublishOK(id)
  \/ PublishFail
  \/ Switch

SpecConc == InitConc /\ [][NextConc]_vars


\* ---- the HTTP server: POST /threads/post -----------------------------------
invocationVars == <<pc, argVars, i, unit, rootPostID, previousPostID, creationID,
                    waitVars, nextID, calls, published, ret>>

Methods == {"POST", "GET"}
APIKeys == {EMPTY, APIKEY, <<"wrong">>}
Configs == {[APIKey |-> EMPTY], [APIKey |-> APIKEY]}

\* request texts: all but the longest texts
HTTPTexts == {t \in Texts : Len(t) < MaxTextLen}

\* a request whose body decodes into postRequest, and one whose body does not
Requests ==
  [method : Methods, apiKey : APIKeys, decodable : {TRUE},
   text : HTTPTexts, imageURL : ImageURLs, url : ExternalURLs]
  \cup
  [method : Methods, apiKey : APIKeys, decodable : {FALSE},
   text : {EMPTY}, imageURL : {EMPTY}, url : {EMPTY}]

\* authMiddleware with the comparison alone
authorizedCompareOnly(apiKey, configured) == apiKey = configured

\* authMiddleware: the test that lets a request through
authorized(apiKey, configured) == ~(apiKey = EMPTY \/ apiKey # configured)

\* handlePost validation that also accepts a request with only a url
hasContentOrURL(r) == ~(r.text = EMPTY /\ r.imageURL = EMPTY /\ r.url = EMPTY)

\* handlePost: must have text OR image
hasContent(r) == ~(r.text = EMPTY /\ r.imageURL = EMPTY)

\* the status written before CreatePost is reached, 0 when it is reached
entryStatus(r, cfg) ==
  IF ~authorized(r.apiKey, cfg.APIKey) THEN 401
  ELSE IF r.method # "POST" THEN 405
  ELSE IF ~r.decodable THEN 400
  ELSE IF ~hasContent(r) THEN 400
  ELSE 0

\* whether the handler got as far as decoding the body
bodyRead(r, cfg) == authorized(r.apiKey, cfg.APIKey) /\ r.method = "POST"

\* handlePost answering 400 to the empty-content error of CreatePost
statusOfNoContent400(err) ==
  IF err = "no content to post" THEN 400
  ELSE IF err # "nil" THEN 500 ELSE 200

\* handlePost: the status written after CreatePost returned
statusOf(err) == IF err # "nil" THEN 500 ELSE 200

Handled(r, stage) ==
  [stage |-> stage, method |-> r.method, apiKey |-> r.apiKey,
   decodable |-> r.decodable, text |-> r.text, imageURL |-> r.imageURL,
   url |-> r.url, bodyRead |-> bodyRead(r, config)]

\* a request is answered by the middleware or by handlePost's checks
Reject(r) ==
  /\ req.stage = "none"
  /\ entryStatus(r, config) # 0
  /\ req' = Handled(r, "responded")
  /\ resp' = [status |-> entryStatus(r, config), postID |-> EMPTY]
  /\ UNCHANGED <<invocationVars, other, limit, config>>

\* a request passes the middleware and handlePost's checks
Accept(r) ==
  /\ req.stage = "none"
  /\ entryStatus(r, config) = 0
  /\ req' = Handled(r, "accepted")
  /\ UNCHANGED <<invocationVars, other, limit, config, resp>>

\* handlePost calls s.Client.CreatePost(req.Text, req.ImageURL, req.URL)
Invoke ==
  /\ req.stage = "accepted"
  /\ CreatePost(req.text, req.imageURL, req.url)

\* CreatePost returned: handlePost writes 500, or 200 with the post id
Respond ==
  /\ req.stage = "accepted"
  /\ pc = "done"
  /\ req' = [req EXCEPT !.stage = "responded"]
  /\ resp' = [status |-> statusOf(ret.err),
              postID |-> IF ret.err # "nil" THEN EMPTY ELSE ret.id]
  /\ UNCHANGED <<invocationVars, other, limit, config>>

InitHTTP ==
  /\ pc = "idle"
  /\ text = EMPTY /\ imageURL = EMPTY /\ externalURL = EMPTY
  /\ chunks = <<>>
  /\ i = 0
  /\ unit = "none"
  /\ rootPostID = EMPTY /\ previousPostID = EMPTY
  /\ creationID = EMPTY
  /\ now = 0 /\ deadline = 0
  /\ polls = 0
  /\ lastStatus = "none"
  /\ nextID = 1
  /\ calls = <<>>
  /\ published = <<>>
  /\ ret = NoReturn
  /\ onlyInProgress = TRUE
  /\ other = NoInvocation
  /\ limit = maxCharLimit
  /\ config \in Configs
  /\ req = NoRequest
  /\ resp = NoResponse

NextHTTP ==
  \/ \E r \in (IF req.stage = "none" THEN Requests ELSE {}) : Reject(r)
  \/ \E r \in (IF req.stage = "none" THEN Requests ELSE {}) : Accept(r)
  \/ Invoke
  \/ \E id \in ContainerIDs : CreateOK(id)
  \/ CreateFail
  \/ \E s \in Statuses : PollReady(s)
  \/ \E s \in Statuses : PollFailed(s)
  \/ \E s \in Statuses, extra \in 0..MaxJitter : PollSleep(s, extra)
  \/ PollError
  \/ WaitTimeout
  \/ \E id \in RemoteIDs : PublishOK(id)
  \/ PublishFail
  \/ Respond

SpecHTTP == InitHTTP /\ [][NextHTTP]_vars


\* ---- createMediaContainer called on its own ---------------------------------
CreateInputs ==
  [text: {EMPTY, <<"a">>}, imageURL: ImageURLs, replyToID: {EMPTY, <<"p">>},
   linkAttachment: ExternalURLs]

\* one call of createMediaContainer with arguments a, outside CreatePost
createMediaContainer(a, ok) ==
  /\ pc = "idle"
  /\ calls = <<>>
  /\ calls' = <<CreateCall(a, ok, IF ok THEN <<nextID>> ELSE EMPTY)>>
  /\ nextID' = IF ok THEN nextID + 1 ELSE nextID
  /\ pc' = "created"
  /\ UNCHANGED <<hostVars, argVars, i, unit, rootPostID, previousPostID, creationID,
                 waitVars, published, ret>>

NextCreate ==
  \/ Next
  \/ \E a \in CreateInputs, ok \in BOOLEAN : createMediaContainer(a, ok)

SpecCreate == Init /\ [][NextCreate]_vars

\* ---- splitText called on its own --------------------------------------------
SplitTexts == SeqsUpTo(MaxSplitLen)
SplitLimits == 1..MaxSplitLimit

InitSplit ==
  /\ pc = "split"
  /\ text \in SplitTexts
  /\ limit \in SplitLimits
  /\ imageURL = EMPTY /\ externalURL = EMPTY
  /\ chunks = <<>>
  /\ i = 0
  /\ unit = "none"
  /\ rootPostID = EMPTY /\ previousPostID = EMPTY
  /\ creationID = EMPTY
  /\ now = 0 /\ deadline = 0
  /\ polls = 0
  /\ lastStatus = "none"
  /\ nextID = 1
  /\ calls = <<>>
  /\ published = <<>>
  /\ ret = NoReturn
  /\ onlyInProgress = TRUE
  /\ other = NoInvocation
  /\ config = [APIKey |-> APIKEY]
  /\ req = NoRequest
  /\ resp = NoResponse

\* chunks := splitText(text, limit)
Split ==
  /\ pc = "split"
  /\ chunks' = splitText(text, limit)
  /\ pc' = "split done"
  /\ UNCHANGED <<text, imageURL, externalURL, i, unit, rootPostID,
                 previousPostID, creationID, waitVars, nextID, calls,
                 published, ret, hostVars>>

NextSplit == Split

SpecSplit == InitSplit /\ [][NextSplit]_vars

\* ---- reading the log -----------------------------------------------------
Called == pc # "idle"
Returned == pc = "done"
Succeeded == pc = "done" /\ ret.err = "nil"
Failed == pc = "done" /\ ret.err # "nil"

\* url.Values.Get: the value of a form field, "" when the field is absent
formGet(params, key) == IF key \in DOMAIN params THEN params[key] ELSE EMPTY

IsCreate(k) == calls[k].op = "create"
IsWait(k) == calls[k].op = "wait"
IsPublish(k) == calls[k].op = "publish"
IsPublished(k) == calls[k].op = "publish" /\ calls[k].ok
IsURLUnit(k) == calls[k].unit \in {"urlreply", "urlroot"}
IsContentUnit(k) == calls[k].unit \in {"chunk", "image"}

PublishedAt == {k \in 1..Len(calls) : IsPublished(k)}
FirstPublished == CHOOSE k \in PublishedAt : \A j \in PublishedAt : k <= j
TerminalStatuses == {"FINISHED", "PUBLISHED", "ERROR", "EXPIRED"}

\* ---- C1 --------------------------------------------------------------------
\* C1: every publish call is for the container whose readiness wait returned
\* success just before it, and every wait (finished or in progress) is for the
\* container the create call returned just before it; so no container whose
\* wait failed, timed out or never ran is published.
C1_PublishOnlyAfterReady ==
  /\ \A k \in 1..Len(calls) :
       /\ IsPublish(k) =>
            /\ k >= 3
            /\ IsWait(k - 1) /\ calls[k - 1].ok
            /\ calls[k - 1].creationID = calls[k].creationID
            /\ calls[k - 1].unit = calls[k].unit
       /\ IsWait(k) =>
            /\ k >= 2
            /\ IsCreate(k - 1) /\ calls[k - 1].ok
            /\ calls[k - 1].id = calls[k].creationID
  /\ pc = "wait" =>
       /\ Len(calls) >= 1
       /\ IsCreate(Len(calls)) /\ calls[Len(calls)].ok
       /\ calls[Len(calls)].id = creationID
  /\ pc = "publish" =>
       /\ Len(calls) >= 2
       /\ IsWait(Len(calls)) /\ calls[Len(calls)].ok
       /\ calls[Len(calls)].creationID = creationID

\* a run that published a text chunk and then the URL reply, and succeeded
C1_Witness ==
  /\ Succeeded
  /\ \E k \in PublishedAt : calls[k].unit = "chunk"
  /\ \E k \in PublishedAt : calls[k].unit = "urlreply"

\* ---- C2 --------------------------------------------------------------------
\* C2: the create requests of the text chunks are issued in index order with
\* the chunk as text; chunk 0 carries the image URL (when there is one) and no
\* reply_to_id; chunk i > 0 carries no image and replies to the id the publish
\* of chunk i-1 returned.
C2_ChunkChain ==
  \A k \in 1..Len(calls) :
    (IsCreate(k) /\ calls[k].unit = "chunk") =>
      LET e == calls[k]
          earlier == {j \in 1..(k - 1) : IsCreate(j) /\ calls[j].unit = "chunk"}
      IN  /\ e.i = Cardinality(earlier)
          /\ e.i < Len(chunks)
          /\ e.args.text = chunks[e.i + 1]
          /\ formGet(e.params, "text") = chunks[e.i + 1]
          /\ IF e.i = 0
             THEN /\ formGet(e.params, "image_url") = imageURL
                  /\ ("image_url" \in DOMAIN e.params) = (imageURL # EMPTY)
                  /\ "reply_to_id" \notin DOMAIN e.params
                  /\ e.args.replyToID = EMPTY
             ELSE /\ "image_url" \notin DOMAIN e.params
                  /\ e.params["media_type"] = TEXT
                  /\ \E j \in 1..(k - 1) :
                       /\ IsPublished(j)
                       /\ calls[j].unit = "chunk"
                       /\ calls[j].i = e.i - 1
                       /\ e.args.replyToID = calls[j].id
                       /\ formGet(e.params, "reply_to_id") = calls[j].id

\* three chunks and an image: the third chunk was created as a reply
C2_Witness ==
  /\ imageURL # EMPTY
  /\ Len(chunks) >= 3
  /\ \E k \in 1..Len(calls) :
       /\ IsCreate(k) /\ calls[k].unit = "chunk" /\ calls[k].i = 2
       /\ "reply_to_id" \in DOMAIN calls[k].params

\* ---- C3 --------------------------------------------------------------------
\* C3: a successful CreatePost returns the id that its first publish call
\* returned.
C3_ReturnsFirstPublishedID ==
  Succeeded =>
    /\ PublishedAt # {}
    /\ ret.id = calls[FirstPublished].id

\* ---- C4 --------------------------------------------------------------------
\* C4: no text or image unit is created after a URL unit and at most one URL
\* unit is created; when CreatePost succeeds with an external URL and at least
\* one text/image unit, the last create is that of the URL unit: its text is
\* the URL, it has no image and no link attachment, its reply_to_id is the id
\* returned by the last text/image publish (an empty id being an absent
\* field), and it was published.
C4_TrailingURLUnit ==
  /\ \A k \in 1..Len(calls) :
       (IsCreate(k) /\ IsURLUnit(k)) =>
         /\ \A j \in (k + 1)..Len(calls) : ~IsCreate(j)
         /\ \A j \in 1..Len(calls) : IsContentUnit(j) => j < k
  /\ (Succeeded /\ externalURL # EMPTY /\ (Len(chunks) > 0 \/ imageURL # EMPTY)) =>
       LET n == Len(calls)
           content == {j \in PublishedAt : IsContentUnit(j)}
           last == CHOOSE j \in content : \A m \in content : m <= j
       IN  /\ n >= 6
           /\ IsCreate(n - 2) /\ IsURLUnit(n - 2) /\ IsPublished(n)
           /\ calls[n].unit = calls[n - 2].unit
           /\ content # {}
           /\ last = n - 3
           /\ Cardinality(content) =
                (IF Len(chunks) > 0 THEN Len(chunks) ELSE 1)
           /\ formGet(calls[n - 2].params, "text") = externalURL
           /\ "image_url" \notin DOMAIN calls[n - 2].params
           /\ "link_attachment" \notin DOMAIN calls[n - 2].params
           /\ calls[n - 2].params["media_type"] = TEXT
           /\ formGet(calls[n - 2].params, "reply_to_id") = calls[last].id

\* two chunks and the URL reply, each published under a non-empty id
C4_Witness ==
  /\ Succeeded
  /\ externalURL # EMPTY
  /\ Len(chunks) >= 2
  /\ calls[Len(calls)].unit = "urlreply"
  /\ formGet(calls[Len(calls) - 2].params, "reply_to_id") # EMPTY
  /\ ret.id # formGet(calls[Len(calls) - 2].params, "reply_to_id")

\* ---- C5 --------------------------------------------------------------------
\* C5: the URL unit is created without reply_to_id exactly when no unit was
\* published before it in the invocation; when one was, the URL unit does not
\* change the id CreatePost returns.
C5_URLRootIffNothingPublished ==
  \A k \in 1..Len(calls) :
    (IsCreate(k) /\ IsURLUnit(k)) =>
      LET before == {j \in PublishedAt : j < k}
      IN  /\ ("reply_to_id" \notin DOMAIN calls[k].params) = (before = {})
          /\ (before # {} /\ Succeeded) => ret.id = calls[FirstPublished].id

\* ---- C6 --------------------------------------------------------------------
\* C6: CreatePost("", "", "") returns an error with an empty id and issues no
\* create, no status request and no publish.
C6_EmptyContentRejected ==
  (Called /\ text = EMPTY /\ imageURL = EMPTY /\ externalURL = EMPTY) =>
    /\ Failed
    /\ ret.id = EMPTY
    /\ calls = <<>>
    /\ polls = 0
    /\ published = <<>>

C6_Witness ==
  /\ Returned
  /\ text = EMPTY /\ imageURL = EMPTY /\ externalURL = EMPTY
  /\ ret.err = "no content to post"

\* ---- C7 --------------------------------------------------------------------
\* C7: a failed create, wait or publish is the last remote operation of the
\* invocation: CreatePost has returned an error and nothing more can be issued;
\* and the remote side keeps every unit published before the failure.
C7_FailureAborts ==
  /\ \A k \in 1..Len(calls) :
       ~calls[k].ok => (k = Len(calls) /\ Failed)
  /\ (Failed /\ calls # <<>>) => ~calls[Len(calls)].ok
  /\ Returned => ~ENABLED Next
  /\ Len(published) = Cardinality(PublishedAt)
  /\ \A k \in PublishedAt :
       \E m \in 1..Len(published) :
         /\ published[m].id = calls[k].id
         /\ published[m].creationID = calls[k].creationID

\* the second chunk failed after the first one was published
C7_Witness ==
  /\ Failed
  /\ Len(calls) >= 4
  /\ calls[Len(calls)].unit = "chunk" /\ calls[Len(calls)].i = 1
  /\ Len(published) = 1
  /\ Len(chunks) >= 3

\* ---- C8 --------------------------------------------------------------------
\* C8: CreatePost returns an empty id whenever it returns an error, also after
\* it published units; a non-empty id comes only with a nil error.
C8_NoPartialResult ==
  Returned =>
    /\ ret.err # "nil" => ret.id = EMPTY
    /\ ret.id # EMPTY => ret.err = "nil"

\* an error return after a unit was published under a non-empty id
C8_Witness ==
  /\ Failed
  /\ rootPostID # EMPTY
  /\ PublishedAt # {}

\* ---- C9 --------------------------------------------------------------------
\* C9: CreatePost("", image, "") issues one create (media type IMAGE, the image
\* URL, no text, no reply_to_id), then one wait, then one publish, and returns
\* the published id.
C9_ImageOnly ==
  (Called /\ text = EMPTY /\ imageURL # EMPTY /\ externalURL = EMPTY) =>
    /\ Len(calls) <= 3
    /\ \A k \in 1..Len(calls) :
         /\ IsCreate(k) = (k = 1)
         /\ IsWait(k) = (k = 2)
         /\ IsPublish(k) = (k = 3)
         /\ calls[k].unit = "image"
    /\ Len(calls) >= 1 =>
         /\ calls[1].params["media_type"] = IMAGE
         /\ calls[1].params["image_url"] = imageURL
         /\ "text" \notin DOMAIN calls[1].params
         /\ "reply_to_id" \notin DOMAIN calls[1].params
         /\ "link_attachment" \notin DOMAIN calls[1].params
    /\ Succeeded => (Len(calls) = 3 /\ ret.id = calls[3].id)
    /\ (Returned /\ Len(calls) = 3 /\ calls[3].ok) => Succeeded

C9_Witness ==
  /\ Succeeded
  /\ text = EMPTY /\ imageURL # EMPTY /\ externalURL = EMPTY
  /\ ret.id # EMPTY

\* ---- C10 -------------------------------------------------------------------
\* C10: waitForContainerReady is never still polling after a status request
\* answered FINISHED, PUBLISHED, ERROR or EXPIRED: it returned on that poll,
\* nil for FINISHED and PUBLISHED, an error for ERROR and EXPIRED.
C10_TerminalStatusReturns ==
  LET waitReturned == calls # <<>> /\ IsWait(Len(calls))
      last == calls[Len(calls)]
  IN  /\ pc = "wait" => lastStatus \notin TerminalStatuses
      /\ lastStatus \in TerminalStatuses =>
           /\ polls >= 1
           /\ \E k \in 1..Len(calls) :
                /\ IsWait(k)
                /\ calls[k].creationID = creationID
                /\ calls[k].ok = (lastStatus \in {"FINISHED", "PUBLISHED"})
                /\ \A j \in (k + 1)..Len(calls) : IsPublish(j)
      /\ (waitReturned /\ lastStatus \in {"FINISHED", "PUBLISHED"}) =>
           (pc = "publish" /\ last.ok /\ last.why = "ready")
      /\ (waitReturned /\ lastStatus \in {"ERROR", "EXPIRED"}) =>
           (Failed /\ ~last.ok /\ last.why = "failed")
      /\ (waitReturned /\ last.ok) => lastStatus \in {"FINISHED", "PUBLISHED"}

\* the third poll answered PUBLISHED and the wait returned nil
C10_Witness ==
  /\ pc = "publish"
  /\ lastStatus = "PUBLISHED"
  /\ polls = 3


\* ---- C11 -------------------------------------------------------------------
\* C11: a wait all of whose status requests answered IN_PROGRESS returns the
\* timeout error, never nil, and CreatePost then fails without a publish call
\* for that container.
C11_AllInProgressTimesOut ==
  LET waitReturned == calls # <<>> /\ IsWait(Len(calls))
      last == calls[Len(calls)]
  IN  /\ (waitReturned /\ onlyInProgress) =>
           /\ polls >= 1
           /\ ~last.ok /\ last.why = "timeout"
           /\ last.creationID = creationID
           /\ Failed /\ ret.err = "not ready" /\ ret.id = EMPTY
           /\ \A k \in 1..Len(calls) :
                IsPublish(k) => calls[k].creationID # creationID
           /\ \A m \in 1..Len(published) : published[m].creationID # creationID
      /\ \A k \in 1..Len(calls) :
           (IsWait(k) /\ calls[k].why = "timeout") => ~calls[k].ok

\* the wait of a later unit timed out on IN_PROGRESS answers only
C11_Witness ==
  /\ Failed
  /\ calls # <<>>
  /\ IsWait(Len(calls)) /\ calls[Len(calls)].why = "timeout"
  /\ onlyInProgress
  /\ polls >= 2
  /\ Len(published) >= 1

\* ---- C12 -------------------------------------------------------------------
\* C12: waitForContainerReady issues at most deadline / interval status
\* requests and, whatever the remote side answers, eventually returns.
MaxPolls == containerReadyTimeout \div containerCheckInterval

C12_WaitTerminates ==
  /\ [](polls <= MaxPolls)
  /\ (pc = "wait") ~> (pc # "wait")

\* the wait ran into its deadline after the largest number of polls
C12_Witness ==
  /\ pc = "done"
  /\ calls # <<>>
  /\ IsWait(Len(calls)) /\ calls[Len(calls)].why = "timeout"
  /\ polls = MaxPolls

\* ---- C13 -------------------------------------------------------------------
\* C13: a status request answered with anything but FINISHED, PUBLISHED, ERROR
\* or EXPIRED leaves the wait running: nothing is returned, at least one
\* interval is slept, and while the deadline has not passed the next step of
\* the wait is another status request.
C13_NonTerminalKeepsPolling ==
  [][ /\ (pc = "wait" /\ polls' = polls + 1
          /\ lastStatus' \notin (TerminalStatuses \cup {"none"})) =>
            /\ pc' = "wait"
            /\ now' >= now + containerCheckInterval
            /\ deadline' = deadline
            /\ calls' = calls /\ ret' = ret /\ published' = published
      /\ (pc = "wait" /\ beforeDeadline(now, deadline)) => polls' = polls + 1
      /\ (pc = "wait" /\ ~beforeDeadline(now, deadline)) => polls' = polls
    ]_vars

\* the wait goes on after an unknown status, an empty one having come before
C13_Witness ==
  /\ pc = "wait"
  /\ lastStatus = "UNKNOWN"
  /\ ~onlyInProgress
  /\ polls >= 2
  /\ beforeDeadline(now, deadline)

\* ---- C14 -------------------------------------------------------------------
\* C14: the remote calls of one CreatePost are sequential: every create but
\* the first directly follows the successful publish of the unit before, and
\* at most one container is created but neither published nor failed.
InFlight ==
  {k \in 1..Len(calls) :
     /\ IsCreate(k) /\ calls[k].ok
     /\ \A j \in (k + 1)..Len(calls) :
          ~(/\ calls[j].creationID = calls[k].id
            /\ \/ IsPublish(j)
               \/ (IsWait(j) /\ ~calls[j].ok))}

C14_StrictlySequential ==
  /\ Cardinality(InFlight) <= 1
  /\ \A k \in 1..Len(calls) :
       (IsCreate(k) /\ k > 1) => IsPublished(k - 1)
  /\ pc = "create" => InFlight = {}
  /\ pc \in {"wait", "publish"} => InFlight = {Len(calls) - (IF pc = "wait" THEN 0 ELSE 1)}

\* three units were created one after the other
C14_Witness ==
  /\ Succeeded
  /\ Cardinality({k \in 1..Len(calls) : IsCreate(k)}) >= 3
  /\ InFlight = {}


\* ---- C15 -------------------------------------------------------------------
\* ids returned by the successful publishes of a log
PublishedIDs(log) ==
  {log[k].id : k \in {j \in 1..Len(log) : log[j].op = "publish" /\ log[j].ok}}

\* every reply_to_id sent in log is an id published in log, none is one the
\* log theirs got from a publish
RepliesToOwn(log, theirs) ==
  \A k \in 1..Len(log) :
    (log[k].op = "create" /\ "reply_to_id" \in DOMAIN log[k].params) =>
      /\ log[k].params["reply_to_id"] \in PublishedIDs(log)
      /\ log[k].params["reply_to_id"] \notin PublishedIDs(theirs)

\* an invocation that succeeded returned the id of its own first publish
ReturnsOwnFirst(l) ==
  (l.pc = "done" /\ l.ret.err = "nil") =>
    LET pubs == {k \in 1..Len(l.calls) : l.calls[k].op = "publish" /\ l.calls[k].ok}
    IN  /\ pubs # {}
        /\ l.ret.id = l.calls[CHOOSE k \in pubs : \A j \in pubs : k <= j].id

\* the part of C15 about the reply chain alone: under every interleaving each
\* invocation replies only to posts it published itself
ConcRepliesIsolated ==
  /\ RepliesToOwn(calls, other.calls)
  /\ RepliesToOwn(other.calls, calls)

\* C15: under every interleaving of two CreatePost invocations each replies
\* only to ids its own publishes returned, and each returns the id of its own
\* first publish.
C15_NoInterference ==
  /\ ConcRepliesIsolated
  /\ ReturnsOwnFirst(locals)
  /\ ReturnsOwnFirst(other)


\* ---- C16 -------------------------------------------------------------------
\* C16: an authenticated POST whose body does not decode, or decodes with text
\* and image_url both empty (whatever its url), is answered 400, and
\* CreatePost is not invoked for it: no remote call is made.
C16_EmptyRequestIs400 ==
  (/\ req.stage # "none"
   /\ authorized(req.apiKey, config.APIKey)
   /\ req.method = "POST"
   /\ (~req.decodable \/ (req.text = EMPTY /\ req.imageURL = EMPTY))) =>
    /\ req.stage = "responded"
    /\ resp.status = 400
    /\ pc = "idle"
    /\ calls = <<>> /\ polls = 0 /\ published = <<>>

\* a request with nothing but a url was answered 400
C16_Witness ==
  /\ req.stage = "responded"
  /\ authorized(req.apiKey, config.APIKey)
  /\ req.method = "POST"
  /\ req.decodable
  /\ req.text = EMPTY /\ req.imageURL = EMPTY /\ req.url # EMPTY
  /\ resp.status = 400

\* ---- C17 -------------------------------------------------------------------
\* C17: CreatePost runs only for a request whose X-API-Key is non-empty and
\* equal to the configured key; a request with a missing or different key is
\* answered 401 with its body unread and nothing invoked, also when the
\* configured key is empty.
C17_OnlyWithAPIKey ==
  /\ Called => (req.stage # "none" /\ req.apiKey # EMPTY
                /\ req.apiKey = config.APIKey)
  /\ (req.stage # "none" /\ (req.apiKey = EMPTY \/ req.apiKey # config.APIKey)) =>
       /\ req.stage = "responded"
       /\ resp.status = 401
       /\ ~req.bodyRead
       /\ pc = "idle"
       /\ calls = <<>> /\ polls = 0 /\ published = <<>>

\* an empty key sent to a server configured with an empty key: 401
C17_Witness ==
  /\ req.stage = "responded"
  /\ config.APIKey = EMPTY
  /\ req.apiKey = EMPTY
  /\ req.method = "POST" /\ req.decodable /\ req.text # EMPTY
  /\ resp.status = 401

\* ---- C18 -------------------------------------------------------------------
\* C18: once CreatePost returned for a request, the answer is 500 exactly when
\* it returned an error, whichever, and otherwise 200 with the returned id.
C18_ErrorIs500 ==
  /\ (req.stage = "responded" /\ Called) =>
       /\ Returned
       /\ (resp.status = 500) = (ret.err # "nil")
       /\ (resp.status = 200) = (ret.err = "nil")
       /\ ret.err = "nil" => resp.postID = ret.id
  /\ (req.stage = "accepted" /\ Returned) => resp = NoResponse
  /\ resp.status = 200 => (req.stage = "responded" /\ Succeeded)
  /\ resp.status = 500 => (req.stage = "responded" /\ Failed)

\* a timeout after one published unit was answered 500
C18_Witness ==
  /\ req.stage = "responded"
  /\ resp.status = 500
  /\ calls # <<>>
  /\ calls[Len(calls)].why = "timeout"
  /\ Len(published) >= 1

\* ---- C19 -------------------------------------------------------------------
\* C19: splitText returns no empty chunk.
C19_NoEmptyChunk ==
  pc = "split done" => \A k \in 1..Len(chunks) : chunks[k] # EMPTY

\* ---- C20 -------------------------------------------------------------------
\* text is k >= 2 words of exactly lim symbols, one space between neighbours
IsLimitWords(t, lim) ==
  LET words == Fields(t)
  IN  /\ Len(words) >= 2
      /\ \A k \in 1..Len(words) : Len(words[k]) = lim
      /\ Len(t) = Len(words) * lim + (Len(words) - 1)

\* C20: for a text of k >= 2 words of exactly limit symbols separated by
\* single spaces splitText returns the words, one chunk each, in order.
C20_OneChunkPerLimitWord ==
  (pc = "split done" /\ IsLimitWords(text, limit)) => chunks = Fields(text)


\* ---- C21 -------------------------------------------------------------------
\* a single word, nothing else
IsOneWord(s) == Fields(s) = <<s>>

\* C21: every chunk of a non-empty text has at most limit symbols, unless it
\* is one word of the text that is itself longer than limit.
C21_ChunkWithinLimit ==
  (pc = "split done" /\ text # EMPTY) =>
    \A k \in 1..Len(chunks) :
      \/ Len(chunks[k]) <= limit
      \/ /\ IsOneWord(chunks[k])
         /\ \E j \in 1..Len(Fields(text)) : Fields(text)[j] = chunks[k]

\* an oversized word got a chunk of its own next to a chunk of two words
C21_Witness ==
  /\ pc = "split done"
  /\ \E k \in 1..Len(chunks) : Len(chunks[k]) > limit /\ IsOneWord(chunks[k])
  /\ \E k \in 1..Len(chunks) : Len(Fields(chunks[k])) = 2 /\ Len(chunks[k]) = limit

\* ---- C22 -------------------------------------------------------------------
\* strings.Join(ss, " ")
RECURSIVE Join(_)
Join(ss) ==
  IF Len(ss) = 0 THEN EMPTY
  ELSE IF Len(ss) = 1 THEN ss[1]
  ELSE ss[1] \o <<" ">> \o Join(Tail(ss))

\* the words of a text separated by single spaces
Normalized(t) == Join(Fields(t))

\* the words of all chunks, chunk after chunk
RECURSIVE WordsOf(_)
WordsOf(chs) == IF Len(chs) = 0 THEN <<>> ELSE Fields(chs[1]) \o WordsOf(Tail(chs))

\* splitText keeps the words: none lost, duplicated, reordered or split
SplitKeepsWords ==
  pc = "split done" => WordsOf(chunks) = Fields(text)

\* C22: the chunks of a non-empty text joined with single spaces are the
\* words of the text separated by single spaces.
C22_JoinIsNormalized ==
  (pc = "split done" /\ text # EMPTY) => Join(chunks) = Normalized(text)

\* ---- C23 -------------------------------------------------------------------
\* C23: a text no longer than limit comes back as the one chunk [text],
\* whitespace included, and the empty text as no chunk at all.
C23_ShortTextUnchanged ==
  (pc = "split done" /\ Len(text) <= limit) =>
    chunks = IF text = EMPTY THEN <<>> ELSE <<text>>

\* a short text with leading and doubled whitespace came back as it was
C23_Witness ==
  /\ pc = "split done"
  /\ Len(text) <= limit
  /\ Fields(text) # <<>>
  /\ text # Normalized(text)
  /\ chunks = <<text>>


\* ---- C24 -------------------------------------------------------------------
\* C24: in every create request media_type is IMAGE exactly when image_url is
\* present (which is exactly when an image URL was given) and TEXT otherwise,
\* link_attachment is present only with media_type TEXT, and within a
\* CreatePost run only the request of the first unit can be an IMAGE.
C24_MediaTypeWellFormed ==
  \A k \in 1..Len(calls) :
    IsCreate(k) =>
      LET p == calls[k].params
          a == calls[k].args
      IN  /\ "media_type" \in DOMAIN p
          /\ p["media_type"] \in {IMAGE, TEXT}
          /\ (p["media_type"] = IMAGE) = ("image_url" \in DOMAIN p)
          /\ ("image_url" \in DOMAIN p) = (a.imageURL # EMPTY)
          /\ "link_attachment" \in DOMAIN p => p["media_type"] = TEXT
          /\ (calls[k].unit # "none" /\ p["media_type"] = IMAGE) =>
               (k = 1 /\ (calls[k].unit = "image"
                          \/ (calls[k].unit = "chunk" /\ calls[k].i = 0)))

\* a run with an image and two chunks: an IMAGE request, then a TEXT reply
C24_Witness ==
  /\ Len(calls) >= 4
  /\ IsCreate(1) /\ calls[1].unit = "chunk"
  /\ calls[1].params["media_type"] = IMAGE
  /\ IsCreate(4) /\ calls[4].unit = "chunk"
  /\ calls[4].params["media_type"] = TEXT
  /\ "image_url" \notin DOMAIN calls[4].params


\* ---- C25 -------------------------------------------------------------------
\* C25: every create request of a CreatePost run carries a non-empty text or
\* a non-empty image URL.
C25_CreateCarriesContent ==
  \A k \in 1..Len(calls) :
    IsCreate(k) =>
      \/ formGet(calls[k].params, "text") # EMPTY
      \/ formGet(calls[k].params, "image_url") # EMPTY

\* ---- C26 -------------------------------------------------------------------
\* C26: for every request the handler accepted CreatePost issues at least one
\* create call and never returns "no content to post", and a URL unit it
\* publishes is a reply to a unit published before it.
C26_AcceptedRequestPosts ==
  /\ (req.stage \in {"accepted", "responded"} /\ Returned) =>
       /\ \E k \in 1..Len(calls) : IsCreate(k)
       /\ ret.err # "no content to post"
  /\ req.stage \in {"accepted", "responded"} =>
       \A k \in 1..Len(calls) :
         (IsPublished(k) /\ IsURLUnit(k)) =>
           /\ calls[k].unit = "urlreply"
           /\ \E j \in 1..(k - 1) : IsPublished(j) /\ IsContentUnit(j)

\* ---- C27 -------------------------------------------------------------------
\* C27: a status poll is issued only while now is strictly before the deadline
\* fixed at the start of the wait; once now has reached the deadline the wait
\* ends with the timeout error without another poll, whatever the container's
\* status has become, and success is returned only by a poll started before
\* the deadline.
C27_NoPollAtDeadline ==
  [][ /\ (polls' = polls + 1) => (pc = "wait" /\ now < deadline)
      /\ (pc = "wait" /\ polls' = polls + 1) => deadline' = deadline
      /\ (pc = "wait" /\ now >= deadline) =>
           /\ polls' = polls
           /\ pc' = "done" /\ ret'.err # "nil"
           /\ calls' = Append(calls, WaitCall(FALSE, "timeout"))
           /\ published' = published
      /\ (pc = "wait" /\ pc' = "publish") =>
           /\ now < deadline
           /\ polls' = polls + 1
           /\ lastStatus' \in {"FINISHED", "PUBLISHED"}
    ]_vars

\* the last sleep ran past the deadline and the wait timed out unpolled
C27_Witness ==
  /\ pc = "done"
  /\ calls # <<>>
  /\ IsWait(Len(calls)) /\ calls[Len(calls)].why = "timeout"
  /\ now > deadline
  /\ lastStatus = "IN_PROGRESS"
  /\ polls < MaxPolls

====
